---- MODULE Spec2Model ----
(***************************************************************************)
(* Model of doc/examples/modelling/plot_gmsh-example.py: the top-level     *)
(* script that fetches mesh.geo with wget, meshes it with gmsh, imports    *)
(* mesh.msh with readGmsh and shows it, or shows a placeholder figure when *)
(* gmsh cannot be invoked.                                                 *)
(*                                                                         *)
(* The script is sequential; pc is the statement about to execute.  The    *)
(* two subprocess.call statements take two steps each (the process is      *)
(* started, or starting it raises OSError; then the blocked call returns   *)
(* the exit status).  The external programs, the importer and the plotting *)
(* calls are the environment: each returns or raises, and the files they   *)
(* leave behind are chosen nondeterministically.                           *)
(***************************************************************************)
EXTENDS Integers, Sequences, FiniteSets, TLC

VARIABLES pc,      \* statement about to execute, "done" or "error"
          gmsh,    \* the flag: "unset", "True" or "False"
          mesh,    \* the variable mesh: "unset" or "mesh"
          exc,     \* uncaught exception that ended the run, or "none"
          fs,      \* working directory: file name -> content
          stdout,  \* lines printed
          nfig,    \* number of figures created
          shown,   \* TRUE once pg.show has drawn the mesh
          xlim,    \* x limits of the current axes, <<>> while default
          ylim,    \* y limits of the current axes, <<>> while default
          title,   \* title of the current axes, "" while unset
          log      \* history of external calls and flag assignments

vars == <<pc, gmsh, mesh, exc, fs, stdout, nfig, shown, xlim, ylim, title, log>>

\* largest exit status an external program is taken to return
MaxRc == 2

\* --- literals of the script ---------------------------------------------
WgetArgs == <<"wget", "http://www.fwagner.info/mesh.geo">>
FetchedFile == "mesh.geo"
GmshArgs == <<"gmsh", "-2", "-o", "mesh.msh", "mesh.geo">>
\* variant: the importer is handed the geometry file
ReadArg_geo == "mesh.geo"
ReadArg == "mesh.msh"
Message == "Gmsh needs to be installed for this example."
Placeholder == "Gmsh needs to be installed for this example"
XLim == <<0, 50>>
YLim == <<-50, 0>>

Files == {"mesh.geo", "mesh.msh"}
Contents == {"absent", "geo", "badgeo", "msh", "badmsh"}

\* the file gmsh writes: the argument that follows -o
OutFile(args) == args[(CHOOSE i \in 1..(Len(args) - 1) : args[i] = "-o") + 1]
\* the file gmsh reads: the last argument
InFile(args) == args[Len(args)]

\* --- history ------------------------------------------------------------
Ev(op, kind, args, rc) == [op |-> op, kind |-> kind, args |-> args, rc |-> rc]
Idx(op, kind) == {i \in DOMAIN log : log[i].op = op /\ log[i].kind = kind}
Happened(op, kind) == Idx(op, kind) # {}
Count(op, kind) == Cardinality(Idx(op, kind))

\* --- the importer --------------------------------------------------------
\* readGmsh parses the named file; anything but a Gmsh mesh makes it raise
ReadGmshOK(name) == fs[name] = "msh"

Init ==
    /\ pc = "wget_call"
    /\ gmsh = "unset"
    /\ mesh = "unset"
    /\ exc = "none"
    /\ fs \in {f \in [Files -> Contents] :
                  /\ f["mesh.geo"] \in {"absent", "geo", "badgeo"}
                  /\ f["mesh.msh"] \in {"absent", "msh", "badmsh"}}
    /\ stdout = <<>>
    /\ nfig = 0
    /\ shown = FALSE
    /\ xlim = <<>>
    /\ ylim = <<>>
    /\ title = ""
    /\ log = <<>>

\* an exception nobody catches ends the script
Uncaught(op, args, e) ==
    /\ log' = log \o <<Ev(op, "invoke", args, -1), Ev(op, "raise", <<e>>, -1)>>
    /\ exc' = e
    /\ pc' = "error"

\* --- line 182: subprocess.call(["wget", ...]) ---------------------------

\* variant: the fetch is started without waiting for it
WgetStart_async ==
    /\ pc = "wget_call"
    /\ log' = Append(log, Ev("wget", "invoke", WgetArgs, -1))
    /\ pc' = "gmsh_call"
    /\ UNCHANGED <<gmsh, mesh, exc, fs, stdout, nfig, shown, xlim, ylim, title>>

WgetStart ==
    /\ pc = "wget_call"
    /\ log' = Append(log, Ev("wget", "invoke", WgetArgs, -1))
    /\ pc' = "wget_run"
    /\ UNCHANGED <<gmsh, mesh, exc, fs, stdout, nfig, shown, xlim, ylim, title>>


\* variant: the fetch is inside a try that swallows OSError
WgetOSError_caught ==
    /\ pc = "wget_call"
    /\ log' = log \o <<Ev("wget", "invoke", WgetArgs, -1),
                       Ev("wget", "raise", <<"OSError">>, -1)>>
    /\ pc' = "gmsh_call"
    /\ UNCHANGED <<gmsh, mesh, exc, fs, stdout, nfig, shown, xlim, ylim, title>>

WgetOSError ==
    /\ pc = "wget_call"
    /\ Uncaught("wget", WgetArgs, "OSError")
    /\ UNCHANGED <<gmsh, mesh, fs, stdout, nfig, shown, xlim, ylim, title>>

WgetExit ==
    /\ pc = "wget_run"
    /\ \E rc \in 0..MaxRc :
         /\ log' = Append(log, Ev("wget", "return", <<>>, rc))
         /\ IF rc = 0
              THEN \E c \in {"geo", "badgeo"} :
                      fs' = [fs EXCEPT ![FetchedFile] = c]
              ELSE fs' = fs
    /\ pc' = "gmsh_call"
    /\ UNCHANGED <<gmsh, mesh, exc, stdout, nfig, shown, xlim, ylim, title>>

\* --- lines 184-189: try / except OSError ---------------------------------
GmshStart ==
    /\ pc = "gmsh_call"
    /\ log' = Append(log, Ev("gmsh", "invoke", GmshArgs, -1))
    /\ pc' = "gmsh_run"
    /\ UNCHANGED <<gmsh, mesh, exc, fs, stdout, nfig, shown, xlim, ylim, title>>


\* variant: the handler tries the mesher a second time
GmshOSError_retry ==
    /\ pc = "gmsh_call"
    /\ log' = log \o <<Ev("gmsh", "invoke", GmshArgs, -1),
                       Ev("gmsh", "raise", <<"OSError">>, -1)>>
    /\ pc' = IF Happened("gmsh", "raise") THEN "print" ELSE "gmsh_call"
    /\ UNCHANGED <<gmsh, mesh, exc, fs, stdout, nfig, shown, xlim, ylim, title>>

GmshOSError ==
    /\ pc = "gmsh_call"
    /\ log' = log \o <<Ev("gmsh", "invoke", GmshArgs, -1),
                       Ev("gmsh", "raise", <<"OSError">>, -1)>>
    /\ pc' = "print"
    /\ UNCHANGED <<gmsh, mesh, exc, fs, stdout, nfig, shown, xlim, ylim, title>>

GmshExit ==
    /\ pc = "gmsh_run"
    /\ \E rc \in 0..MaxRc :
         /\ log' = Append(log, Ev("gmsh", "return", <<>>, rc))
         /\ \/ /\ rc = 0
               /\ fs[InFile(GmshArgs)] = "geo"
               /\ fs' = [fs EXCEPT ![OutFile(GmshArgs)] = "msh"]
            \/ /\ rc # 0 \/ fs[InFile(GmshArgs)] # "geo"
               /\ \E c \in {fs[OutFile(GmshArgs)], "badmsh"} :
                     fs' = [fs EXCEPT ![OutFile(GmshArgs)] = c]
    /\ pc' = "assign_true"
    /\ UNCHANGED <<gmsh, mesh, exc, stdout, nfig, shown, xlim, ylim, title>>


\* variant: the flag follows the exit status of the mesher
AssignTrue_status ==
    /\ pc = "assign_true"
    /\ gmsh' = IF log[Len(log)].rc = 0 THEN "True" ELSE "False"
    /\ log' = Append(log, Ev("flag", "assign", <<gmsh'>>, -1))
    /\ pc' = "branch"
    /\ UNCHANGED <<mesh, exc, fs, stdout, nfig, shown, xlim, ylim, title>>

AssignTrue ==
    /\ pc = "assign_true"
    /\ gmsh' = "True"
    /\ log' = Append(log, Ev("flag", "assign", <<"True">>, -1))
    /\ pc' = "branch"
    /\ UNCHANGED <<mesh, exc, fs, stdout, nfig, shown, xlim, ylim, title>>


\* variant: the handler is silent
PrintMessage_silent ==
    /\ pc = "print"
    /\ pc' = "assign_false"
    /\ UNCHANGED <<gmsh, mesh, exc, fs, stdout, nfig, shown, xlim, ylim, title, log>>

PrintMessage ==
    /\ pc = "print"
    /\ stdout' = Append(stdout, Message)
    /\ pc' = "assign_false"
    /\ UNCHANGED <<gmsh, mesh, exc, fs, nfig, shown, xlim, ylim, title, log>>

AssignFalse ==
    /\ pc = "assign_false"
    /\ gmsh' = "False"
    /\ log' = Append(log, Ev("flag", "assign", <<"False">>, -1))
    /\ pc' = "branch"
    /\ UNCHANGED <<mesh, exc, fs, stdout, nfig, shown, xlim, ylim, title>>

\* --- line 191: if gmsh ----------------------------------------------------
BranchTrue ==
    /\ pc = "branch"
    /\ gmsh = "True"
    /\ pc' = "readGmsh"
    /\ UNCHANGED <<gmsh, mesh, exc, fs, stdout, nfig, shown, xlim, ylim, title, log>>


\* variant: the else branch is missing and the import runs regardless
BranchFalse_import ==
    /\ pc = "branch"
    /\ gmsh = "False"
    /\ pc' = "readGmsh"
    /\ UNCHANGED <<gmsh, mesh, exc, fs, stdout, nfig, shown, xlim, ylim, title, log>>

BranchFalse ==
    /\ pc = "branch"
    /\ gmsh = "False"
    /\ pc' = "figure"
    /\ UNCHANGED <<gmsh, mesh, exc, fs, stdout, nfig, shown, xlim, ylim, title, log>>

\* --- lines 192-195 ----------------------------------------------------------
ReadGmshReturn ==
    /\ pc = "readGmsh"
    /\ ReadGmshOK(ReadArg)
    /\ mesh' = "mesh"
    /\ log' = log \o <<Ev("readGmsh", "invoke", <<ReadArg>>, -1),
                       Ev("readGmsh", "return", <<>>, -1)>>
    /\ pc' = "show"
    /\ UNCHANGED <<gmsh, exc, fs, stdout, nfig, shown, xlim, ylim, title>>


\* variant: the import is inside a try that falls back to the placeholder
ReadGmshRaise_caught ==
    /\ pc = "readGmsh"
    /\ ~ReadGmshOK(ReadArg)
    /\ log' = log \o <<Ev("readGmsh", "invoke", <<ReadArg>>, -1),
                       Ev("readGmsh", "raise", <<"Exception">>, -1)>>
    /\ pc' = "figure"
    /\ UNCHANGED <<gmsh, mesh, exc, fs, stdout, nfig, shown, xlim, ylim, title>>

ReadGmshRaise ==
    /\ pc = "readGmsh"
    /\ ~ReadGmshOK(ReadArg)
    /\ Uncaught("readGmsh", <<ReadArg>>, "Exception")
    /\ UNCHANGED <<gmsh, mesh, fs, stdout, nfig, shown, xlim, ylim, title>>

ShowReturn ==
    /\ pc = "show"
    /\ shown' = TRUE
    /\ nfig' = nfig + 1
    /\ log' = log \o <<Ev("show", "invoke", <<>>, -1), Ev("show", "return", <<>>, -1)>>
    /\ pc' = "xlim"
    /\ UNCHANGED <<gmsh, mesh, exc, fs, stdout, xlim, ylim, title>>

ShowRaise ==
    /\ pc = "show"
    /\ Uncaught("show", <<>>, "Exception")
    /\ UNCHANGED <<gmsh, mesh, fs, stdout, nfig, shown, xlim, ylim, title>>

XlimReturn ==
    /\ pc = "xlim"
    /\ xlim' = XLim
    /\ log' = log \o <<Ev("xlim", "invoke", <<>>, -1), Ev("xlim", "return", <<>>, -1)>>
    /\ pc' = "ylim"
    /\ UNCHANGED <<gmsh, mesh, exc, fs, stdout, nfig, shown, ylim, title>>

XlimRaise ==
    /\ pc = "xlim"
    /\ Uncaught("xlim", <<>>, "Exception")
    /\ UNCHANGED <<gmsh, mesh, fs, stdout, nfig, shown, xlim, ylim, title>>


\* variant: the else is lost and the placeholder follows the mesh
YlimReturn_fallthrough ==
    /\ pc = "ylim"
    /\ ylim' = YLim
    /\ log' = log \o <<Ev("ylim", "invoke", <<>>, -1), Ev("ylim", "return", <<>>, -1)>>
    /\ pc' = "figure"
    /\ UNCHANGED <<gmsh, mesh, exc, fs, stdout, nfig, shown, xlim, title>>

YlimReturn ==
    /\ pc = "ylim"
    /\ ylim' = YLim
    /\ log' = log \o <<Ev("ylim", "invoke", <<>>, -1), Ev("ylim", "return", <<>>, -1)>>
    /\ pc' = "done"
    /\ UNCHANGED <<gmsh, mesh, exc, fs, stdout, nfig, shown, xlim, title>>

YlimRaise ==
    /\ pc = "ylim"
    /\ Uncaught("ylim", <<>>, "Exception")
    /\ UNCHANGED <<gmsh, mesh, fs, stdout, nfig, shown, xlim, ylim, title>>

\* --- lines 196-198 ----------------------------------------------------------
FigureReturn ==
    /\ pc = "figure"
    /\ nfig' = nfig + 1
    /\ log' = log \o <<Ev("figure", "invoke", <<>>, -1), Ev("figure", "return", <<>>, -1)>>
    /\ pc' = "title"
    /\ UNCHANGED <<gmsh, mesh, exc, fs, stdout, shown, xlim, ylim, title>>

FigureRaise ==
    /\ pc = "figure"
    /\ Uncaught("figure", <<>>, "Exception")
    /\ UNCHANGED <<gmsh, mesh, fs, stdout, nfig, shown, xlim, ylim, title>>


\* variant: the limits are set after the if/else, so in both branches
TitleReturn_limits ==
    /\ pc = "title"
    /\ title' = Placeholder
    /\ xlim' = XLim
    /\ ylim' = YLim
    /\ log' = log \o <<Ev("title", "invoke", <<>>, -1), Ev("title", "return", <<>>, -1)>>
    /\ pc' = "done"
    /\ UNCHANGED <<gmsh, mesh, exc, fs, stdout, nfig, shown>>

TitleReturn ==
    /\ pc = "title"
    /\ title' = Placeholder
    /\ log' = log \o <<Ev("title", "invoke", <<>>, -1), Ev("title", "return", <<>>, -1)>>
    /\ pc' = "done"
    /\ UNCHANGED <<gmsh, mesh, exc, fs, stdout, nfig, shown, xlim, ylim>>

TitleRaise ==
    /\ pc = "title"
    /\ Uncaught("title", <<>>, "Exception")
    /\ UNCHANGED <<gmsh, mesh, fs, stdout, nfig, shown, xlim, ylim, title>>

Next ==
    \/ WgetStart \/ WgetOSError \/ WgetExit
    \/ GmshStart \/ GmshOSError \/ GmshExit
    \/ AssignTrue \/ PrintMessage \/ AssignFalse
    \/ BranchTrue \/ BranchFalse
    \/ ReadGmshReturn \/ ReadGmshRaise
    \/ ShowReturn \/ ShowRaise
    \/ XlimReturn \/ XlimRaise
    \/ YlimReturn \/ YlimRaise
    \/ FigureReturn \/ FigureRaise
    \/ TitleReturn \/ TitleRaise

Spec == Init /\ [][Next]_vars

\* every external call returns or raises, so the script always takes its
\* next step
FairSpec == Spec /\ WF_vars(Next)

Terminated == pc \in {"done", "error"}
\* --- vocabulary of the properties ---------------------------------------
GmshRaised == Happened("gmsh", "raise")
GmshSucceeded == \E i \in Idx("gmsh", "return") : log[i].rc = 0
GeneratorCrashed == \E i \in Idx("gmsh", "return") : log[i].rc # 0
MeshDisplayed == shown /\ xlim = XLim /\ ylim = YLim
PlaceholderShown == Happened("figure", "return") /\ title = Placeholder
Aborted == exc # "none"

\* C1: in a run in which invoking gmsh raised OSError, readGmsh is never
\* called and the script is never at a statement of the import branch; such
\* a run that has ended has entered the fallback branch (plt.figure was
\* called), and when it ended without an error a new figure carries the
\* placeholder title.
C1_Fallback ==
    GmshRaised =>
        /\ ~Happened("readGmsh", "invoke")
        /\ mesh = "unset" /\ ~shown
        /\ pc \notin {"readGmsh", "show", "xlim", "ylim"}
        /\ Terminated => Happened("figure", "invoke")
        /\ pc = "done" => nfig = 1 /\ PlaceholderShown

C1_Witness == GmshRaised /\ pc = "done" /\ PlaceholderShown

\* C2: readGmsh is called at most once, every call is made after gmsh was
\* invoked and with the file name that followed -o in that invocation
\* ("mesh.msh"), and once gmsh has exited with status 0 and the script is
\* past the import statement, readGmsh has been called exactly once.
C2_Importer ==
    /\ Count("readGmsh", "invoke") <= 1
    /\ \A i \in Idx("readGmsh", "invoke") :
          /\ log[i].args = <<"mesh.msh">>
          /\ \E j \in Idx("gmsh", "invoke") :
                j < i /\ log[i].args = <<OutFile(log[j].args)>>
    /\ (GmshSucceeded /\ pc \notin {"assign_true", "branch", "readGmsh"})
          => Count("readGmsh", "invoke") = 1

C2_Witness == GmshSucceeded /\ pc = "done" /\ Count("readGmsh", "invoke") = 1

\* C3: whenever an axis limit is set, it has its declared value (x 0..50,
\* y -50..0), the flag is true, the mesh has been imported and shown, and
\* the fallback branch has not been entered; with the flag false, or in the
\* fallback branch, both limits are unset.
C3_Bounds ==
    /\ (xlim # <<>> \/ ylim # <<>>) =>
          /\ xlim = XLim
          /\ ylim \in {<<>>, YLim}
          /\ gmsh = "True"
          /\ mesh = "mesh"
          /\ shown /\ Happened("readGmsh", "return") /\ Happened("show", "return")
          /\ ~Happened("figure", "invoke") /\ title = ""
    /\ (gmsh = "False" \/ pc \in {"figure", "title"} \/ Happened("figure", "invoke"))
          => xlim = <<>> /\ ylim = <<>>

C3_Witness == pc = "done" /\ xlim = XLim /\ ylim = YLim /\ gmsh = "True"

C5_Order ==
    /\ \A i \in Idx("gmsh", "invoke") :
          \E j \in Idx("wget", "return") : j < i
    /\ \A i \in Idx("readGmsh", "invoke") :
          \E j \in Idx("gmsh", "return") : j < i
    /\ \A i \in Idx("show", "invoke") :
          \E j \in Idx("readGmsh", "return") : j < i
    /\ pc = "wget_run" => log[Len(log)] = Ev("wget", "invoke", WgetArgs, -1)
    /\ pc = "gmsh_run" => log[Len(log)] = Ev("gmsh", "invoke", GmshArgs, -1)

C5_Witness == Happened("show", "return") /\ pc = "done"

\* C6: wget, gmsh and readGmsh are each invoked at most once, and nothing
\* that follows an OSError of the gmsh invocation is another gmsh event.
C6_NoRetry ==
    /\ Count("wget", "invoke") <= 1
    /\ Count("gmsh", "invoke") <= 1
    /\ Count("readGmsh", "invoke") <= 1
    /\ \A i \in Idx("gmsh", "raise") :
          \A j \in DOMAIN log : j > i => log[j].op # "gmsh"

C6_Witness == GmshRaised /\ pc = "done" /\ Count("gmsh", "invoke") = 1

\* what C7 says of the flag apart from how often it is assigned: it is
\* false exactly when the gmsh invocation raised OSError, and after a
\* non-zero exit status it is true and the import branch is taken
FlagValue ==
    /\ gmsh = "False" => GmshRaised
    /\ gmsh = "True" => ~GmshRaised /\ Happened("gmsh", "return")
    /\ \A i \in Idx("flag", "assign") : log[i].args = <<gmsh>>
    /\ (GeneratorCrashed /\ gmsh # "unset") =>
          /\ gmsh = "True"
          /\ pc \notin {"figure", "title"} /\ ~Happened("figure", "invoke")
          /\ pc \notin {"branch", "readGmsh"} => Happened("readGmsh", "invoke")

\* C7 as stated: every run assigns the flag exactly once.
C7_Original ==
    /\ Terminated => Count("flag", "assign") = 1
    /\ FlagValue

\* C7 amended: the flag is assigned at most once; it has been assigned
\* exactly once whenever the branch is evaluated or has been evaluated; it
\* is never assigned in a run that aborts because invoking wget raised; it
\* is false exactly when the gmsh invocation raised OSError, and after a
\* non-zero exit status of gmsh it is true and the import branch is taken.
C7_Flag ==
    /\ Count("flag", "assign") <= 1
    /\ gmsh = "unset" <=> Count("flag", "assign") = 0
    /\ Count("flag", "assign") = 0 <=>
          \/ pc \in {"wget_call", "wget_run", "gmsh_call", "gmsh_run",
                     "assign_true", "print", "assign_false"}
          \/ Happened("wget", "raise")
    /\ FlagValue

C7_Witness == GeneratorCrashed /\ gmsh = "True" /\ Happened("readGmsh", "invoke")

\* C8: whenever the placeholder title is set, or the script is in the
\* fallback branch, the message has been printed (once); a run that is at
\* or past the mesh import has printed nothing.
C8_Message ==
    /\ title # "" => title = Placeholder /\ stdout = <<Message>>
    /\ pc \in {"figure", "title"} => stdout = <<Message>>
    /\ (pc = "readGmsh" \/ Happened("readGmsh", "invoke")) => stdout = <<>>

C8_Witness == title = Placeholder /\ stdout = <<Message>>

\* C9: once wget has returned, whatever its exit status, the next call is
\* the gmsh invocation, on "mesh.geo"; when invoking wget raised OSError the
\* run is in the error state with that exception, gmsh was not invoked, the
\* flag is unset, and there is no figure, no mesh display and no title.
C9_Fetch ==
    /\ \A i \in Idx("wget", "return") :
          \/ i = Len(log) /\ pc = "gmsh_call"
          \/ i < Len(log) /\ log[i + 1].op = "gmsh" /\ log[i + 1].kind = "invoke"
                          /\ InFile(log[i + 1].args) = "mesh.geo"
    /\ Happened("wget", "raise") =>
          /\ pc = "error" /\ exc = "OSError"
          /\ ~Happened("gmsh", "invoke")
          /\ gmsh = "unset"
          /\ nfig = 0 /\ ~shown /\ title = "" /\ stdout = <<>>

C9_Witness ==
    /\ \E i \in Idx("wget", "return") : log[i].rc # 0
    /\ Happened("gmsh", "invoke")

\* C10: every run terminates; a terminated run is in exactly one of the end
\* states mesh displayed with both limits, placeholder figure with title,
\* aborted; no state has both the mesh display and the placeholder figure;
\* a terminated run takes no further step.
C10_EndStates ==
    /\ <>Terminated
    /\ [](Terminated =>
            /\ MeshDisplayed \/ PlaceholderShown \/ Aborted
            /\ ~(MeshDisplayed /\ PlaceholderShown)
            /\ ~(MeshDisplayed /\ Aborted)
            /\ ~(PlaceholderShown /\ Aborted))
    /\ [](~(shown /\ (Happened("figure", "invoke") \/ title # "")))
    /\ [][~Terminated]_vars

C10_Witness == pc = "done" /\ MeshDisplayed /\ ~PlaceholderShown /\ ~Aborted
====
